---- MODULE Spec2Model ----
(***************************************************************************)
(* NaviSearch front end: the query parser, the tag state machine and the   *)
(* debounced search of frontend/src/NaviSearch.jsx, and the ranker and     *)
(* the EIG scorer of frontend/src/prototype.jsx.                            *)
(*                                                                         *)
(* A JavaScript string is a sequence of one-character strings, so that     *)
(* trim, split, join, replace and toLowerCase are computed, not assumed.   *)
(***************************************************************************)
EXTENDS Integers, Sequences, FiniteSets, TLC

(***************************************************************************)
(* Bounds of the model.                                                    *)
(***************************************************************************)
\* longest text typed into the search box under SpecParse
MaxParseLen == 6
\* most tokens of a text typed into the search box before tags are clicked
MaxTypedTokens == 2
\* most calls of performSearch in one run
MaxSearches == 3
\* most pieces of a text typed into the search box of the prototype
MaxProtoTokens == 3
\* longest text the tag operations may build in the search box
MaxInputLen == 7

(***************************************************************************)
(* Characters and the JavaScript string functions the code uses.           *)
(***************************************************************************)
WhiteSpace == {" "}
PrefixChars == {"+", "-", "~"}
Letters == {"a", "A", "b"}
Alphabet == Letters \cup PrefixChars \cup WhiteSpace

EmptyString == << >>

\* String.prototype.toLowerCase, character by character. A character
\* outside ASCII is written by its code point ("u524d") and has no lower case.
LowerOf ==
    ("A" :> "a") @@ ("B" :> "b") @@ ("C" :> "c") @@ ("D" :> "d") @@
    ("E" :> "e") @@ ("F" :> "f") @@ ("G" :> "g") @@ ("H" :> "h") @@
    ("I" :> "i") @@ ("J" :> "j") @@ ("K" :> "k") @@ ("L" :> "l") @@
    ("M" :> "m") @@ ("N" :> "n") @@ ("O" :> "o") @@ ("P" :> "p") @@
    ("Q" :> "q") @@ ("R" :> "r") @@ ("S" :> "s") @@ ("T" :> "t") @@
    ("U" :> "u") @@ ("V" :> "v") @@ ("W" :> "w") @@ ("X" :> "x") @@
    ("Y" :> "y") @@ ("Z" :> "z")

LowerChar(c) == IF c \in DOMAIN LowerOf THEN LowerOf[c] ELSE c

RECURSIVE toLowerCase(_)
toLowerCase(s) ==
    IF s = << >> THEN << >>
    ELSE << LowerChar(Head(s)) >> \o toLowerCase(Tail(s))

\* String.prototype.trim
RECURSIVE trimStart(_)
trimStart(s) ==
    IF s # << >> /\ Head(s) \in WhiteSpace THEN trimStart(Tail(s)) ELSE s

RECURSIVE trimEnd(_)
trimEnd(s) ==
    IF s # << >> /\ s[Len(s)] \in WhiteSpace
    THEN trimEnd(SubSeq(s, 1, Len(s) - 1))
    ELSE s

trim(s) == trimEnd(trimStart(s))

\* String.prototype.split(/\s+/): the pieces between maximal runs of white
\* space; a leading or trailing run leaves an empty first or last piece.
RECURSIVE split(_)
split(s) ==
    IF \A i \in DOMAIN s : s[i] \notin WhiteSpace
    THEN << s >>
    ELSE LET i == CHOOSE k \in DOMAIN s :
                      /\ s[k] \in WhiteSpace
                      /\ \A m \in 1..(k - 1) : s[m] \notin WhiteSpace
             rest == trimStart(SubSeq(s, i, Len(s)))
         IN  << SubSeq(s, 1, i - 1) >> \o split(rest)

\* Array.prototype.join(" ")
RECURSIVE join(_)
join(parts) ==
    IF parts = << >> THEN EmptyString
    ELSE IF Len(parts) = 1 THEN parts[1]
    ELSE parts[1] \o << " " >> \o join(Tail(parts))

\* String.prototype.replace(/\s+/g, ' ')
RECURSIVE collapse(_)
collapse(s) ==
    IF s = << >> THEN << >>
    ELSE IF Head(s) \in WhiteSpace
         THEN << " " >> \o collapse(trimStart(s))
         ELSE << Head(s) >> \o collapse(Tail(s))

\* String.prototype.startsWith(c) for a one-character c
startsWith(s, c) == s # << >> /\ Head(s) = c

\* String.prototype.substring(1)
substring1(s) == SubSeq(s, 2, Len(s))

\* String.prototype.includes
includes(s, sub) ==
    \E i \in 1..(Len(s) - Len(sub) + 1) : SubSeq(s, i, i + Len(sub) - 1) = sub

\* Array.prototype.map(t => c + t)
withPrefix(tags, c) == [i \in DOMAIN tags |-> << c >> \o tags[i]]

(***************************************************************************)
(* NaviSearch.jsx: parseSearchInput                                        *)
(***************************************************************************)
EmptyQuery ==
    [query |-> EmptyString, likeTags |-> << >>, mustTags |-> << >>,
     mustNotTags |-> << >>]

\* parsePart with a + token that is already in mustTags skipped
parsePart_dedup(part, st) ==
    IF part = << >> THEN st
    ELSE IF startsWith(part, "+") /\ Len(part) > 1
    THEN [st EXCEPT !.parsingQuery = FALSE,
                    !.mustTags = IF \E i \in DOMAIN @ : @[i] = substring1(part)
                                 THEN @ ELSE Append(@, substring1(part))]
    ELSE IF startsWith(part, "-") /\ Len(part) > 1
    THEN [st EXCEPT !.parsingQuery = FALSE,
                    !.mustNotTags = Append(@, substring1(part))]
    ELSE IF startsWith(part, "~") /\ Len(part) > 1
    THEN [st EXCEPT !.parsingQuery = FALSE,
                    !.likeTags = Append(@, substring1(part))]
    ELSE IF st.parsingQuery /\ Head(part) \notin PrefixChars
    THEN [st EXCEPT !.queryTerms = Append(@, part)]
    ELSE IF Len(part) = 1 /\ part[1] \in PrefixChars
    THEN IF st.parsingQuery
         THEN [st EXCEPT !.queryTerms = Append(@, part)]
         ELSE [st EXCEPT !.likeTags = Append(@, part)]
    ELSE [st EXCEPT !.parsingQuery = FALSE,
                    !.likeTags = Append(@, part)]

\* parsePart with free text that resumes after a tag token
parsePart_resume(part, st) ==
    IF part = << >> THEN st
    ELSE IF startsWith(part, "+") /\ Len(part) > 1
    THEN [st EXCEPT !.mustTags = Append(@, substring1(part))]
    ELSE IF startsWith(part, "-") /\ Len(part) > 1
    THEN [st EXCEPT !.mustNotTags = Append(@, substring1(part))]
    ELSE IF startsWith(part, "~") /\ Len(part) > 1
    THEN [st EXCEPT !.likeTags = Append(@, substring1(part))]
    ELSE IF st.parsingQuery /\ Head(part) \notin PrefixChars
    THEN [st EXCEPT !.queryTerms = Append(@, part)]
    ELSE IF Len(part) = 1 /\ part[1] \in PrefixChars
    THEN IF st.parsingQuery
         THEN [st EXCEPT !.queryTerms = Append(@, part)]
         ELSE [st EXCEPT !.likeTags = Append(@, part)]
    ELSE [st EXCEPT !.parsingQuery = FALSE,
                    !.likeTags = Append(@, part)]

\* a turn of the loop that takes a prefix alone for a tag token
parsePart_emptyTag(part, st) ==
    IF part = << >> THEN st
    ELSE IF startsWith(part, "+")
    THEN [st EXCEPT !.parsingQuery = FALSE,
                    !.mustTags = Append(@, substring1(part))]
    ELSE IF startsWith(part, "-")
    THEN [st EXCEPT !.parsingQuery = FALSE,
                    !.mustNotTags = Append(@, substring1(part))]
    ELSE IF startsWith(part, "~")
    THEN [st EXCEPT !.parsingQuery = FALSE,
                    !.likeTags = Append(@, substring1(part))]
    ELSE IF st.parsingQuery
    THEN [st EXCEPT !.queryTerms = Append(@, part)]
    ELSE [st EXCEPT !.parsingQuery = FALSE,
                    !.likeTags = Append(@, part)]

\* a turn of the loop that drops a prefix alone
parsePart_dropPrefix(part, st) ==
    IF part = << >> THEN st
    ELSE IF startsWith(part, "+") /\ Len(part) > 1
    THEN [st EXCEPT !.parsingQuery = FALSE,
                    !.mustTags = Append(@, substring1(part))]
    ELSE IF startsWith(part, "-") /\ Len(part) > 1
    THEN [st EXCEPT !.parsingQuery = FALSE,
                    !.mustNotTags = Append(@, substring1(part))]
    ELSE IF startsWith(part, "~") /\ Len(part) > 1
    THEN [st EXCEPT !.parsingQuery = FALSE,
                    !.likeTags = Append(@, substring1(part))]
    ELSE IF st.parsingQuery /\ Head(part) \notin PrefixChars
    THEN [st EXCEPT !.queryTerms = Append(@, part)]
    ELSE IF Len(part) = 1 /\ part[1] \in PrefixChars
    THEN st
    ELSE [st EXCEPT !.parsingQuery = FALSE,
                    !.likeTags = Append(@, part)]

\* one turn of the for loop over parts
parsePart(part, st) ==
    IF part = << >> THEN st
    ELSE IF startsWith(part, "+") /\ Len(part) > 1
    THEN [st EXCEPT !.parsingQuery = FALSE,
                    !.mustTags = Append(@, substring1(part))]
    ELSE IF startsWith(part, "-") /\ Len(part) > 1
    THEN [st EXCEPT !.parsingQuery = FALSE,
                    !.mustNotTags = Append(@, substring1(part))]
    ELSE IF startsWith(part, "~") /\ Len(part) > 1
    THEN [st EXCEPT !.parsingQuery = FALSE,
                    !.likeTags = Append(@, substring1(part))]
    ELSE IF st.parsingQuery /\ Head(part) \notin PrefixChars
    THEN [st EXCEPT !.queryTerms = Append(@, part)]
    ELSE IF Len(part) = 1 /\ part[1] \in PrefixChars
    THEN IF st.parsingQuery
         THEN [st EXCEPT !.queryTerms = Append(@, part)]
         ELSE [st EXCEPT !.likeTags = Append(@, part)]
    ELSE [st EXCEPT !.parsingQuery = FALSE,
                    !.likeTags = Append(@, part)]

RECURSIVE parseParts(_, _)
parseParts(parts, st) ==
    IF parts = << >> THEN st
    ELSE parseParts(Tail(parts), parsePart(Head(parts), st))

parseSearchInput(input) ==
    LET cleanedInput == trim(input)
    IN  IF cleanedInput = << >> THEN EmptyQuery
        ELSE LET st == parseParts(split(cleanedInput),
                           [queryTerms |-> << >>, likeTags |-> << >>,
                            mustTags |-> << >>, mustNotTags |-> << >>,
                            parsingQuery |-> TRUE])
             IN  [query |-> join(st.queryTerms), likeTags |-> st.likeTags,
                  mustTags |-> st.mustTags, mustNotTags |-> st.mustNotTags]

(***************************************************************************)
(* NaviSearch.jsx: updateSearchInputWithTags, the text it hands to         *)
(* setSearchInput                                                          *)
(***************************************************************************)
updateSearchInputWithTags(query, likeTags, mustTags, mustNotTags) ==
    LET queryPart == IF query # << >> THEN query \o << " " >> ELSE << >>
        likePart == join(withPrefix(likeTags, "~"))
        mustPart == join(withPrefix(mustTags, "+"))
        mustNotPart == join(withPrefix(mustNotTags, "-"))
    IN  trim(collapse(queryPart \o likePart \o << " " >> \o mustPart
                      \o << " " >> \o mustNotPart))

(***************************************************************************)
(* NaviSearch.jsx: getTagState and the tag operations, as the sets they    *)
(* hand to updateSearchInputWithTags                                       *)
(***************************************************************************)
TagTypes == {"like", "must", "mustNot"}

\* Array.prototype.some(t => t.toLowerCase() === lowerTag)
someLower(tags, lowerTag) ==
    \E i \in DOMAIN tags : toLowerCase(tags[i]) = lowerTag

\* a filter that also drops the tags that contain lowerTag
filterLower_includes(tags, lowerTag) ==
    SelectSeq(tags, LAMBDA t : ~includes(toLowerCase(t), lowerTag))

\* Array.prototype.filter(t => t.toLowerCase() !== lowerTag)
filterLower(tags, lowerTag) ==
    SelectSeq(tags, LAMBDA t : toLowerCase(t) # lowerTag)

\* getTagState with likeTags looked up first
getTagState_likeFirst(parsed, tag) ==
    LET lowerTag == toLowerCase(tag)
    IN  IF someLower(parsed.likeTags, lowerTag) THEN "like"
        ELSE IF someLower(parsed.mustTags, lowerTag) THEN "must"
        ELSE IF someLower(parsed.mustNotTags, lowerTag) THEN "mustNot"
        ELSE "none"

getTagState(parsed, tag) ==
    LET lowerTag == toLowerCase(tag)
    IN  IF someLower(parsed.mustTags, lowerTag) THEN "must"
        ELSE IF someLower(parsed.mustNotTags, lowerTag) THEN "mustNot"
        ELSE IF someLower(parsed.likeTags, lowerTag) THEN "like"
        ELSE "none"

\* toggleSets without the filter of mustNotTags
toggleSets_keepMustNot(input, parsed, tagToToggle) ==
    LET cur == parseSearchInput(input)
        lowerTagToToggle == toLowerCase(tagToToggle)
        likeTags == filterLower(cur.likeTags, lowerTagToToggle)
        mustTags == filterLower(cur.mustTags, lowerTagToToggle)
        mustNotTags == cur.mustNotTags
        currentState == getTagState(parsed, tagToToggle)
    IN  [query |-> cur.query,
         likeTags |-> IF currentState = "none"
                      THEN Append(likeTags, tagToToggle) ELSE likeTags,
         mustTags |-> IF currentState = "like"
                      THEN Append(mustTags, tagToToggle) ELSE mustTags,
         mustNotTags |-> IF currentState = "must"
                         THEN Append(mustNotTags, tagToToggle)
                         ELSE mustNotTags]

\* toggleTagInSearch up to its call of updateSearchInputWithTags: `input' is
\* searchInput, `parsed' is the parsedQuery that getTagState reads
toggleSets(input, parsed, tagToToggle) ==
    LET cur == parseSearchInput(input)
        lowerTagToToggle == toLowerCase(tagToToggle)
        likeTags == filterLower(cur.likeTags, lowerTagToToggle)
        mustTags == filterLower(cur.mustTags, lowerTagToToggle)
        mustNotTags == filterLower(cur.mustNotTags, lowerTagToToggle)
        currentState == getTagState(parsed, tagToToggle)
    IN  [query |-> cur.query,
         likeTags |-> IF currentState = "none"
                      THEN Append(likeTags, tagToToggle) ELSE likeTags,
         mustTags |-> IF currentState = "like"
                      THEN Append(mustTags, tagToToggle) ELSE mustTags,
         mustNotTags |-> IF currentState = "must"
                         THEN Append(mustNotTags, tagToToggle)
                         ELSE mustNotTags]

\* addSets without the filter of mustTags
addSets_keepMust(input, tag, type) ==
    LET cur == parseSearchInput(input)
        lowerTag == toLowerCase(tag)
        likeTags == filterLower(cur.likeTags, lowerTag)
        mustTags == cur.mustTags
        mustNotTags == filterLower(cur.mustNotTags, lowerTag)
    IN  [query |-> cur.query,
         likeTags |-> IF type = "like" THEN Append(likeTags, tag)
                      ELSE likeTags,
         mustTags |-> IF type = "must" THEN Append(mustTags, tag)
                      ELSE mustTags,
         mustNotTags |-> IF type = "mustNot" THEN Append(mustNotTags, tag)
                         ELSE mustNotTags]

\* addTagFromRecommendation up to its call of updateSearchInputWithTags
addSets(input, tag, type) ==
    LET cur == parseSearchInput(input)
        lowerTag == toLowerCase(tag)
        likeTags == filterLower(cur.likeTags, lowerTag)
        mustTags == filterLower(cur.mustTags, lowerTag)
        mustNotTags == filterLower(cur.mustNotTags, lowerTag)
    IN  [query |-> cur.query,
         likeTags |-> IF type = "like" THEN Append(likeTags, tag)
                      ELSE likeTags,
         mustTags |-> IF type = "must" THEN Append(mustTags, tag)
                      ELSE mustTags,
         mustNotTags |-> IF type = "mustNot" THEN Append(mustNotTags, tag)
                         ELSE mustNotTags]

\* a remove that filters the tag out of all three sets
removeSets_allSets(input, tagToRemove, type) ==
    LET cur == parseSearchInput(input)
        lowerTagToRemove == toLowerCase(tagToRemove)
    IN  [query |-> cur.query,
         likeTags |-> filterLower(cur.likeTags, lowerTagToRemove),
         mustTags |-> filterLower(cur.mustTags, lowerTagToRemove),
         mustNotTags |-> filterLower(cur.mustNotTags, lowerTagToRemove)]

\* removeTagFromPill up to its call of updateSearchInputWithTags
removeSets(input, tagToRemove, type) ==
    LET cur == parseSearchInput(input)
        lowerTagToRemove == toLowerCase(tagToRemove)
    IN  [query |-> cur.query,
         likeTags |-> IF type = "like"
                      THEN filterLower(cur.likeTags, lowerTagToRemove)
                      ELSE cur.likeTags,
         mustTags |-> IF type = "must"
                      THEN filterLower(cur.mustTags, lowerTagToRemove)
                      ELSE cur.mustTags,
         mustNotTags |-> IF type = "mustNot"
                         THEN filterLower(cur.mustNotTags, lowerTagToRemove)
                         ELSE cur.mustNotTags]

serialize(q) ==
    updateSearchInputWithTags(q.query, q.likeTags, q.mustTags, q.mustNotTags)

(***************************************************************************)
(* The state of the NaviSearch component (its useState cells), the         *)
(* debounce timer and the requests in flight.                              *)
(***************************************************************************)
VARIABLES
    searchInput,      \* useState(''): the text of the search box
    parsedQuery,      \* useState({query: '', likeTags: [], ...})
    searchResults,    \* useState([])
    recommendedTags,  \* useState([])
    isLoading,        \* useState(false)
    error,            \* useState(null)
    authToken,        \* useState('admin_secret_token')
    effectPending,    \* a dependency of the search effect changed and the
                      \* effect has not run yet
    debounceSearch,   \* the pending setTimeout of the search effect
    inflight,         \* the fetches of /search that have not returned
    issued,           \* how many times performSearch was called
    shownFor,         \* which call of performSearch wrote searchResults last
    lastCall,         \* the last tag operation and the sets it computed
    toggleRun,        \* the run of consecutive toggles of one tag
    ingesting,        \* the fetches of /ingest that have not returned, each
                      \* with the parsedQuery and the authToken of the render
                      \* whose button was clicked
    lastSearch,       \* the last step of performSearch and what was shown
                      \* before it
    successMessage,   \* useState(null): which call of displayMessage set the
                      \* message that is shown, NoMessage for null
    messageTimers,    \* the pending setTimeout(() => setSuccessMessage(null))
                      \* of displayMessage, in the order in which they fire
    protoInput,       \* prototype.jsx: useState(''), the search box
    protoParsed,      \* prototype.jsx: parsedQuery
    protoResults,     \* prototype.jsx: searchResults
    availableTags,    \* prototype.jsx: availableTags
    protoPending,     \* prototype.jsx: searchInput changed and the effect
                      \* has not run yet
    protoCandidates,  \* prototype.jsx: the candidates of the last
                      \* performSearch, as recalled and cut to 8
    protoSims,        \* prototype.jsx: the similarity that the search
                      \* draws for each document (Math.random)
    protoRun          \* history: the run of toggleTag calls on one tag, with the
                      \* text before the first and the text after each

naviVars ==
    << searchInput, parsedQuery, searchResults, recommendedTags, isLoading,
       error, authToken, effectPending, debounceSearch, inflight, issued,
       shownFor, lastCall, toggleRun, ingesting, lastSearch, successMessage,
       messageTimers >>

protoVars ==
    << protoInput, protoParsed, protoResults, availableTags, protoPending,
       protoCandidates, protoSims, protoRun >>

messageVars == << successMessage, messageTimers >>

vars == << naviVars, protoVars >>

searchVars ==
    << searchResults, recommendedTags, isLoading, error, authToken,
       inflight, issued, shownFor, ingesting, lastSearch, successMessage,
       messageTimers >>

NoTimer == [pending |-> FALSE]
NoCall == [op |-> "none"]
NoRun == [n |-> 0]
NoMessage == 0
NoSearch == [op |-> "none"]
NoError == "null"
MissingToken == "missing token"

\* the keys typed under SpecParse
ParseAlphabet == {"a", "b", "+", "-", "~", " "}

\* the texts typed before tags are clicked: up to MaxTypedTokens of these
\* tokens, one space between them
TypedTokens ==
    { << "a" >>, << "+", "a" >>, << "-", "a" >>, << "~", "A" >>,
      << "+", "b" >>, << "b" >>, << "~" >> }

TokenInputs ==
    UNION {{join(ts) : ts \in [1..n -> TypedTokens]} : n \in 0..MaxTypedTokens}

\* the tags that results and recommendations of the backend carry: plain
\* tags, two casings of one tag, a tag of two words (the tag dictionary
\* takes whole lines) and a tag that begins with a prefix character
TagUniverse ==
    { << "a" >>, << "A" >>, << "b" >>, << "a", " ", "b" >>, << "+", "a" >> }

Init ==
    /\ searchInput = EmptyString
    /\ parsedQuery = EmptyQuery
    /\ searchResults = << >>
    /\ recommendedTags = << >>
    /\ isLoading = FALSE
    /\ error = NoError
    /\ authToken = "admin_secret_token"
    /\ effectPending = TRUE
    /\ debounceSearch = NoTimer
    /\ inflight = {}
    /\ issued = 0
    /\ shownFor = 0
    /\ lastCall = NoCall
    /\ toggleRun = NoRun
    /\ lastSearch = NoSearch
    /\ ingesting = {}
    /\ successMessage = NoMessage
    /\ messageTimers = << >>
    /\ protoInput = EmptyString
    /\ protoParsed = EmptyQuery
    /\ protoResults = << >>
    /\ availableTags = << >>
    /\ protoPending = TRUE
    /\ protoCandidates = << >>
    /\ protoSims = [i \in 1..8 |-> 1]
    /\ protoRun = NoRun

\* setSearchInput(value): React re-renders, and re-runs the effect, only when
\* the value differs
setSearchInput(value) ==
    /\ searchInput' = value
    /\ effectPending' = (effectPending \/ value # searchInput)

\* useEffect(..., [searchInput, parseSearchInput, performSearch]): the cleanup
\* of the previous run clears its timer, then the effect parses the text and
\* arms a new timer that holds the parsed query and this render's
\* performSearch (which closes over authToken)
useEffectSearch ==
    /\ effectPending
    /\ effectPending' = FALSE
    /\ parsedQuery' = parseSearchInput(searchInput)
    /\ debounceSearch' = [pending |-> TRUE,
                          parsed |-> parseSearchInput(searchInput),
                          token |-> authToken]
    /\ UNCHANGED << searchInput, searchVars, lastCall, toggleRun, protoVars >>

\* onChange={(e) => setSearchInput(e.target.value)}
onSearchInputChange(value) ==
    /\ setSearchInput(value)
    /\ lastCall' = NoCall
    /\ toggleRun' = NoRun
    /\ UNCHANGED << parsedQuery, debounceSearch, searchVars, protoVars >>

\* onClick={() => toggleTagInSearch(tag)} on a tag of a result
toggleTagInSearch(tagToToggle) ==
    LET currentState == getTagState(parsedQuery, tagToToggle)
        sets == toggleSets(searchInput, parsedQuery, tagToToggle)
    IN  /\ Len(serialize(sets)) <= MaxInputLen
        /\ setSearchInput(serialize(sets))
        /\ lastCall' = [op |-> "toggle", tag |-> tagToToggle,
                        type |-> currentState,
                        before |-> parseSearchInput(searchInput),
                        after |-> sets]
        /\ toggleRun' =
              IF toggleRun.n \in 1..3 /\ toggleRun.tag = tagToToggle
              THEN [toggleRun EXCEPT !.n = @ + 1]
              ELSE IF currentState = "none"
                   THEN [n |-> 1, tag |-> tagToToggle]
                   ELSE NoRun
        /\ UNCHANGED << parsedQuery, debounceSearch, searchVars, protoVars >>

\* onClick={() => addTagFromRecommendation(tag, type)} on a recommended tag
addTagFromRecommendation(tag, type) ==
    LET sets == addSets(searchInput, tag, type)
    IN  /\ Len(serialize(sets)) <= MaxInputLen
        /\ setSearchInput(serialize(sets))
        /\ lastCall' = [op |-> "add", tag |-> tag, type |-> type,
                        before |-> parseSearchInput(searchInput),
                        after |-> sets]
        /\ toggleRun' = NoRun
        /\ UNCHANGED << parsedQuery, debounceSearch, searchVars, protoVars >>

\* the pills of one type: parsedQuery.likeTags.map(...) and so on
pills(type) ==
    LET tags == CASE type = "like" -> parsedQuery.likeTags
                  [] type = "must" -> parsedQuery.mustTags
                  [] type = "mustNot" -> parsedQuery.mustNotTags
    IN  {tags[i] : i \in DOMAIN tags}

\* onClick={() => removeTagFromPill(tag, type)} on the X of a pill
removeTagFromPill(tagToRemove, type) ==
    LET sets == removeSets(searchInput, tagToRemove, type)
    IN  /\ setSearchInput(serialize(sets))
        /\ lastCall' = [op |-> "remove", tag |-> tagToRemove, type |-> type,
                        before |-> parseSearchInput(searchInput),
                        after |-> sets]
        /\ toggleRun' = NoRun
        /\ UNCHANGED << parsedQuery, debounceSearch, searchVars, protoVars >>

\* The editing of the query with the tag operations. Every change of the
\* text is followed by the search effect before the next event is handled.
Next ==
    \/ useEffectSearch
    \/ \E value \in TokenInputs :
          ~effectPending /\ onSearchInputChange(value)
    \/ \E tag \in TagUniverse :
          ~effectPending /\ toggleTagInSearch(tag)
    \/ \E tag \in TagUniverse, type \in TagTypes :
          ~effectPending /\ addTagFromRecommendation(tag, type)
    \/ \E type \in TagTypes : \E tag \in pills(type) :
          ~effectPending /\ removeTagFromPill(tag, type)

Spec == Init /\ [][Next]_vars

\* The tag operations alone, from the empty search box.
NextTagOps ==
    \/ useEffectSearch
    \/ \E tag \in TagUniverse :
          ~effectPending /\ toggleTagInSearch(tag)
    \/ \E tag \in TagUniverse, type \in TagTypes :
          ~effectPending /\ addTagFromRecommendation(tag, type)
    \/ \E type \in TagTypes : \E tag \in pills(type) :
          ~effectPending /\ removeTagFromPill(tag, type)

SpecTagOps == Init /\ [][NextTagOps]_vars

\* The pills under quick clicks. The pills are rendered from parsedQuery,
\* which the effect sets after the render that follows setSearchInput: until
\* then the pill of a tag that was just removed is still there and can be
\* clicked again.
NextPills ==
    \/ useEffectSearch
    \/ \E value \in TokenInputs :
          ~effectPending /\ onSearchInputChange(value)
    \/ \E tag \in TagUniverse, type \in TagTypes :
          ~effectPending /\ addTagFromRecommendation(tag, type)
    \/ \E type \in TagTypes : \E tag \in pills(type) :
          removeTagFromPill(tag, type)

SpecPills == Init /\ [][NextPills]_vars

\* The result tags under quick clicks, from the empty search box. A click
\* sets searchInput; parsedQuery follows in the effect, whose setParsedQuery is rendered in a later task.
\* A click that is handled in between runs the handler of the render that
\* has the new searchInput and the old parsedQuery.
NextQuickClicks ==
    \/ useEffectSearch
    \/ \E tag \in TagUniverse :
          toggleTagInSearch(tag)

SpecQuickClicks == Init /\ [][NextQuickClicks]_vars

\* The parser on every text up to MaxParseLen, typed and erased one
\* character at a time.
NextParse ==
    \/ useEffectSearch
    \/ \E c \in ParseAlphabet :
          /\ ~effectPending
          /\ Len(searchInput) < MaxParseLen
          /\ onSearchInputChange(Append(searchInput, c))
    \/ /\ ~effectPending
       /\ searchInput # << >>
       /\ onSearchInputChange(SubSeq(searchInput, 1, Len(searchInput) - 1))

SpecParse == Init /\ [][NextParse]_vars

(***************************************************************************)
(* NaviSearch.jsx: makeApiRequest, performSearch and the debounce timer    *)
(***************************************************************************)
AuthTokens == {"admin_secret_token", ""}

\* what the backend answers to POST /search: a body with results and
\* recommended tags, a 204 without body, or a failure (a network error or a
\* status that is not OK)
SearchResponses ==
    { [kind |-> "data", results |-> << "doc1" >>,
       recommended_tags |-> << << "a" >> >>],
      [kind |-> "data", results |-> << "doc2", "doc1" >>,
       recommended_tags |-> << << "b" >> >>],
      [kind |-> "data", results |-> << >>, recommended_tags |-> << >>],
      [kind |-> "noContent"],
      [kind |-> "failed"] }

\* the texts typed under SpecSearch
SearchTexts == { EmptyString, << "a" >>, << "+", "b" >> }

isEmptyQuery(parsed) ==
    /\ parsed.query = << >>
    /\ Len(parsed.likeTags) = 0
    /\ Len(parsed.mustTags) = 0
    /\ Len(parsed.mustNotTags) = 0

\* onChange={(e) => setAuthToken(e.target.value)}: makeApiRequest and
\* performSearch are rebuilt, which re-runs the search effect
onAuthTokenChange(value) ==
    /\ authToken' = value
    /\ effectPending' = (effectPending \/ value # authToken)
    /\ UNCHANGED << searchInput, parsedQuery, searchResults, recommendedTags,
                    isLoading, error, debounceSearch, inflight, issued,
                    shownFor, lastCall, toggleRun, ingesting, lastSearch,
                    messageVars, protoVars >>

\* a performSearch that sends the empty query to the backend as well
performSearch_noEmptyCheck(parsed, token) ==
    /\ issued < MaxSearches
    /\ issued' = issued + 1
    /\ lastSearch' = [op |-> "performSearch", id |-> issued + 1,
                      parsed |-> parsed, token |-> token,
                      results |-> searchResults, tags |-> recommendedTags,
                      inflight |-> inflight]
    /\ IF token = ""
       THEN /\ error' = MissingToken
            /\ searchResults' = << >>
            /\ recommendedTags' = << >>
            /\ shownFor' = issued + 1
            /\ UNCHANGED << isLoading, inflight >>
       ELSE /\ isLoading' = TRUE
            /\ error' = NoError
            /\ inflight' = inflight \cup {[id |-> issued + 1, payload |-> parsed]}
            /\ UNCHANGED << searchResults, recommendedTags, shownFor >>

\* performSearch(parsed) of the render whose authToken is token, up to the
\* a performSearch that leaves the display alone when makeApiRequest
\* returns null for a missing token
performSearch_keepsOnNull(parsed, token) ==
    /\ issued < MaxSearches
    /\ issued' = issued + 1
    /\ lastSearch' = [op |-> "performSearch", id |-> issued + 1,
                      parsed |-> parsed, token |-> token,
                      results |-> searchResults, tags |-> recommendedTags,
                      inflight |-> inflight]
    /\ IF isEmptyQuery(parsed)
       THEN /\ searchResults' = << >>
            /\ recommendedTags' = << >>
            /\ shownFor' = issued + 1
            /\ UNCHANGED << isLoading, error, inflight >>
       ELSE IF token = ""
       THEN \* makeApiRequest returns null without a request
            /\ error' = MissingToken
            /\ UNCHANGED << searchResults, recommendedTags, shownFor,
                            isLoading, inflight >>
       ELSE /\ isLoading' = TRUE
            /\ error' = NoError
            /\ inflight' = inflight \cup {[id |-> issued + 1, payload |-> parsed]}
            /\ UNCHANGED << searchResults, recommendedTags, shownFor >>

\* await of fetch in makeApiRequest
performSearch(parsed, token) ==
    /\ issued < MaxSearches
    /\ issued' = issued + 1
    /\ lastSearch' = [op |-> "performSearch", id |-> issued + 1,
                      parsed |-> parsed, token |-> token,
                      results |-> searchResults, tags |-> recommendedTags,
                      inflight |-> inflight]
    /\ IF isEmptyQuery(parsed)
       THEN /\ searchResults' = << >>
            /\ recommendedTags' = << >>
            /\ shownFor' = issued + 1
            /\ UNCHANGED << isLoading, error, inflight >>
       ELSE IF token = ""
       THEN \* makeApiRequest returns null without a request
            /\ error' = MissingToken
            /\ searchResults' = << >>
            /\ recommendedTags' = << >>
            /\ shownFor' = issued + 1
            /\ UNCHANGED << isLoading, inflight >>
       ELSE /\ isLoading' = TRUE
            /\ error' = NoError
            /\ inflight' = inflight \cup {[id |-> issued + 1, payload |-> parsed]}
            /\ UNCHANGED << searchResults, recommendedTags, shownFor >>

\* the timer of the search effect fires after 500 ms
debounceFires ==
    /\ ~effectPending
    /\ debounceSearch.pending
    /\ debounceSearch' = NoTimer
    /\ performSearch(debounceSearch.parsed, debounceSearch.token)
    /\ UNCHANGED << searchInput, parsedQuery, authToken, effectPending,
                    lastCall, toggleRun, ingesting, messageVars,
                    protoVars >>

\* a return of the fetch whose catch does not call setError
fetchReturns_silent(req, response) ==
    /\ req \in inflight
    /\ inflight' = inflight \ {req}
    /\ isLoading' = FALSE
    /\ error' = error
    /\ IF response.kind = "data"
       THEN /\ searchResults' = response.results
            /\ recommendedTags' = response.recommended_tags
       ELSE /\ searchResults' = << >>
            /\ recommendedTags' = << >>
    /\ shownFor' = req.id
    /\ lastSearch' = [op |-> "response", id |-> req.id,
                      kind |-> response.kind,
                      results |-> searchResults, tags |-> recommendedTags,
                      inflight |-> inflight]
    /\ UNCHANGED << searchInput, parsedQuery, authToken, effectPending,
                    debounceSearch, issued, lastCall, toggleRun, ingesting,
                    messageVars, protoVars >>

\* the fetch of one request returns: the rest of makeApiRequest (catch and
\* finally) and of performSearch (the two branches on data)
fetchReturns(req, response) ==
    /\ req \in inflight
    /\ inflight' = inflight \ {req}
    /\ isLoading' = FALSE
    /\ error' = IF response.kind = "failed" THEN "request failed" ELSE error
    /\ IF response.kind = "data"
       THEN /\ searchResults' = response.results
            /\ recommendedTags' = response.recommended_tags
       ELSE /\ searchResults' = << >>
            /\ recommendedTags' = << >>
    /\ shownFor' = req.id
    /\ lastSearch' = [op |-> "response", id |-> req.id,
                      kind |-> response.kind,
                      results |-> searchResults, tags |-> recommendedTags,
                      inflight |-> inflight]
    /\ UNCHANGED << searchInput, parsedQuery, authToken, effectPending,
                    debounceSearch, issued, lastCall, toggleRun, ingesting,
                    messageVars, protoVars >>

\* The debounced search: typing, the effect, the timer and the answers of
\* the backend in any order.
\* displayMessage(setError, ...) is called only on the branches of
\* handleFileUpload and handleViewOriginalDocument whose buttons are disabled
\* or not rendered (387, 485-518), so no timer ever clears error.
NextSearch ==
    \/ useEffectSearch
    \/ \E value \in SearchTexts :
          ~effectPending /\ onSearchInputChange(value)
    \/ \E value \in AuthTokens :
          ~effectPending /\ onAuthTokenChange(value)
    \/ debounceFires
    \/ \E req \in inflight, response \in SearchResponses :
          fetchReturns(req, response)

SpecSearch == Init /\ [][NextSearch]_vars

\* what the backend answers to POST /ingest: a body, a 204 without body, or
\* a failure
IngestResponses == {"data", "noContent", "failed"}

\* displayMessage(setSuccessMessage, message): the message is set and a
\* timer is started that sets null after 3000 ms; `call' tells the calls
\* apart
displayMessage(call) ==
    /\ successMessage' = call
    /\ messageTimers' = Append(messageTimers, call)

\* a timer of displayMessage fires: setter(null)
displayTimerFires ==
    /\ messageTimers # << >>
    /\ messageTimers' = Tail(messageTimers)
    /\ successMessage' = NoMessage
    /\ UNCHANGED << searchInput, parsedQuery, searchResults, recommendedTags,
                    isLoading, error, authToken, effectPending, debounceSearch,
                    inflight, issued, shownFor, lastCall, toggleRun, ingesting,
                    lastSearch, protoVars >>

\* disabled={isIngesting || !authToken || isLoading} of the ingest button;
\* isIngesting is true from the click to the return of the request
ingestDisabled == ingesting # {} \/ authToken = "" \/ isLoading

\* onClick={handleIngestDocuments}, up to the await of fetch in
\* makeApiRequest; the handler keeps the parsedQuery and the performSearch
\* (and so the authToken) of the render in which it was made
handleIngestDocuments ==
    /\ IF authToken = ""
       THEN /\ error' = MissingToken
            /\ UNCHANGED << isLoading, ingesting >>
       ELSE /\ isLoading' = TRUE
            /\ error' = NoError
            /\ ingesting' = ingesting \cup
                                {[parsed |-> parsedQuery, token |-> authToken]}
    /\ UNCHANGED << searchInput, parsedQuery, searchResults, recommendedTags,
                    authToken, effectPending, debounceSearch, inflight, issued,
                    shownFor, lastCall, toggleRun, lastSearch, messageVars,
                    protoVars >>

\* the fetch of /ingest returns: the rest of makeApiRequest, and with a body
\* the rest of handleIngestDocuments, which calls performSearch(parsedQuery)
\* at once; that call runs up to the await of its own fetch
ingestReturns(req, response) ==
    /\ req \in ingesting
    /\ ingesting' = ingesting \ {req}
    /\ IF response = "data"
       THEN /\ issued < MaxSearches
            /\ issued' = issued + 1
            /\ displayMessage(issued + 1)
            /\ lastSearch' = [op |-> "performSearch", id |-> issued + 1,
                              parsed |-> req.parsed, token |-> req.token,
                              results |-> searchResults,
                              tags |-> recommendedTags,
                              inflight |-> inflight]
            /\ IF isEmptyQuery(req.parsed)
               THEN /\ isLoading' = FALSE
                    /\ searchResults' = << >>
                    /\ recommendedTags' = << >>
                    /\ shownFor' = issued + 1
                    /\ UNCHANGED << error, inflight >>
               ELSE /\ isLoading' = TRUE
                    /\ error' = NoError
                    /\ inflight' = inflight \cup
                           {[id |-> issued + 1, payload |-> req.parsed]}
                    /\ UNCHANGED << searchResults, recommendedTags, shownFor >>
       ELSE /\ isLoading' = FALSE
            /\ error' = IF response = "failed" THEN "request failed" ELSE error
            /\ UNCHANGED << searchResults, recommendedTags, inflight, issued,
                            shownFor, lastSearch, messageVars >>
    /\ UNCHANGED << searchInput, parsedQuery, authToken, effectPending,
                    debounceSearch, lastCall, toggleRun, protoVars >>

\* The debounced search together with the button that ingests documents
\* and then refreshes the results.
NextIngest ==
    \/ useEffectSearch
    \/ \E value \in SearchTexts :
          ~effectPending /\ onSearchInputChange(value)
    \/ \E value \in AuthTokens :
          ~effectPending /\ onAuthTokenChange(value)
    \/ debounceFires
    \/ \E req \in inflight, response \in SearchResponses :
          fetchReturns(req, response)
    \/ ~effectPending /\ ~ingestDisabled /\ handleIngestDocuments
    \/ displayTimerFires
    \/ \E req \in ingesting, response \in IngestResponses :
          ingestReturns(req, response)

SpecIngest == Init /\ [][NextIngest]_vars

(***************************************************************************)
(* prototype.jsx: the mock documents, the ranker (performSearch) and the   *)
(* EIG scorer (calculateTagEIG)                                            *)
(***************************************************************************)
\* the eight documents with their tags; content is not read by the ranker
\* and is kept as a name
mockDocuments ==
    <<
      [id |-> 1, content |-> "content1", source |-> "react-guide.md",
       tags |-> <<
            << "u524d", "u7aef" >>,
            << "J", "a", "v", "a", "S", "c", "r", "i", "p", "t" >>,
            << "R", "e", "a", "c", "t" >>,
            << "u7ec4", "u4ef6", "u5316" >>,
            << "u865a", "u62df", "D", "O", "M" >>,
            << "u58f0", "u660e", "u5f0f" >>,
            << "F", "a", "c", "e", "b", "o", "o", "k" >>,
            << "W", "e", "b", "u5f00", "u53d1" >> >>],
      [id |-> 2, content |-> "content2", source |-> "vue-tutorial.md",
       tags |-> <<
            << "u524d", "u7aef" >>,
            << "J", "a", "v", "a", "S", "c", "r", "i", "p", "t" >>,
            << "V", "u", "e" >>,
            << "u6e10", "u8fdb", "u5f0f" >>,
            << "u6846", "u67b6" >>,
            << "u89c6", "u56fe", "u5c42" >>,
            << "u6613", "u4e0a", "u624b" >>,
            << "W", "e", "b", "u5f00", "u53d1" >> >>],
      [id |-> 3, content |-> "content3", source |-> "python-intro.md",
       tags |-> <<
            << "u540e", "u7aef" >>,
            << "P", "y", "t", "h", "o", "n" >>,
            << "u9ad8", "u7ea7", "u8bed", "u8a00" >>,
            << "u6570", "u636e", "u79d1", "u5b66" >>,
            << "u673a", "u5668", "u5b66", "u4e60" >>,
            << "W", "e", "b", "u5f00", "u53d1" >>,
            << "u7b2c", "u4e09", "u65b9", "u5e93" >>,
            << "u751f", "u6001", "u7cfb", "u7edf" >> >>],
      [id |-> 4, content |-> "content4", source |-> "ml-basics.md",
       tags |-> <<
            << "u673a", "u5668", "u5b66", "u4e60" >>,
            << "u4eba", "u5de5", "u667a", "u80fd" >>,
            << "u7b97", "u6cd5" >>,
            << "u6570", "u636e" >>,
            << "u7ebf", "u6027", "u56de", "u5f52" >>,
            << "u51b3", "u7b56", "u6811" >>,
            << "u795e", "u7ecf", "u7f51", "u7edc" >>,
            << "u6a21", "u5f0f", "u8bc6", "u522b" >> >>],
      [id |-> 5, content |-> "content5", source |-> "docker-guide.md",
       tags |-> <<
            << "D", "e", "v", "O", "p", "s" >>,
            << "D", "o", "c", "k", "e", "r" >>,
            << "u5bb9", "u5668", "u5316" >>,
            << "u5f00", "u6e90" >>,
            << "u90e8", "u7f72" >>,
            << "u73af", "u5883", "u7ba1", "u7406" >>,
            << "u8f7b", "u91cf", "u7ea7" >>,
            << "u53ef", "u79fb", "u690d" >> >>],
      [id |-> 6, content |-> "content6", source |-> "nodejs-overview.md",
       tags |-> <<
            << "u540e", "u7aef" >>,
            << "N", "o", "d", "e", ".", "j", "s" >>,
            << "J", "a", "v", "a", "S", "c", "r", "i", "p", "t" >>,
            << "V", "8", "u5f15", "u64ce" >>,
            << "u670d", "u52a1", "u5668" >>,
            << "u4e8b", "u4ef6", "u9a71", "u52a8" >>,
            << "u975e", "u963b", "u585e" >>,
            << "u8fd0", "u884c", "u65f6" >> >>],
      [id |-> 7, content |-> "content7", source |-> "microservices.md",
       tags |-> <<
            << "u67b6", "u6784" >>,
            << "u5fae", "u670d", "u52a1" >>,
            << "u5206", "u5e03", "u5f0f" >>,
            << "u670d", "u52a1", "u5316" >>,
            << "u8fdb", "u7a0b" >>,
            << "u8f7b", "u91cf", "u7ea7" >>,
            << "u901a", "u4fe1" >>,
            << "u89e3", "u8026" >> >>],
      [id |-> 8, content |-> "content8", source |-> "graphql-intro.md",
       tags |-> <<
            << "A", "P", "I" >>,
            << "G", "r", "a", "p", "h", "Q", "L" >>,
            << "u67e5", "u8be2", "u8bed", "u8a00" >>,
            << "u8fd0", "u884c", "u65f6" >>,
            << "u6570", "u636e", "u83b7", "u53d6" >>,
            << "u7075", "u6d3b" >>,
            << "u5ba2", "u6237", "u7aef" >>,
            << "u7cbe", "u786e", "u67e5", "u8be2" >> >>]
    >>

\* candidates.slice(0, 8)
RetrievalTopK == 8
\* candidates.slice(0, 5)
RerankTopK == 5
\* tagsWithEIG.slice(0, 15)
TagsTopK == 15

\* Array.prototype.slice(0, k)
slice(s, k) == SubSeq(s, 1, IF Len(s) < k THEN Len(s) ELSE k)

\* prototype.jsx parseSearchInput: the first piece is the query, every
\* other piece a tag
proto_classify(st, tag) ==
    IF startsWith(tag, "+")
    THEN [st EXCEPT !.mustTags = Append(@, substring1(tag))]
    ELSE IF startsWith(tag, "-")
    THEN [st EXCEPT !.mustNotTags = Append(@, substring1(tag))]
    ELSE IF startsWith(tag, "~")
    THEN [st EXCEPT !.likeTags = Append(@, substring1(tag))]
    ELSE [st EXCEPT !.likeTags = Append(@, tag)]

RECURSIVE proto_classifyAll(_, _)
proto_classifyAll(tags, st) ==
    IF tags = << >> THEN st
    ELSE proto_classifyAll(Tail(tags), proto_classify(st, Head(tags)))

proto_parseSearchInput(input) ==
    LET parts == split(trim(input))
    IN  proto_classifyAll(Tail(parts),
            [query |-> parts[1], likeTags |-> << >>, mustTags |-> << >>,
             mustNotTags |-> << >>])

\* the levels of similarity that calculateSimilarity is taken to return;
\* its last factor is 0.85 + Math.random() * 0.15
SimLevels == {1, 2}
\* calculateSimilarity returns 0.3 for every document when query is empty
BaseSim == 1

\* the similarities one search can give the documents
simsFor(query) ==
    IF query = << >>
    THEN {[i \in DOMAIN mockDocuments |-> BaseSim]}
    ELSE [DOMAIN mockDocuments -> SimLevels]

\* (a, b) => b.similarity - a.similarity
bySimilarity(a, b) == b.similarity - a.similarity

\* a compare function that looks at the similarity alone
byLikeScoreThenSimilarity_similarityOnly(a, b) == b.similarity - a.similarity

\* the compare function of the second sort of performSearch
byLikeScoreThenSimilarity(a, b) ==
    IF b.likeScore # a.likeScore
    THEN b.likeScore - a.likeScore
    ELSE b.similarity - a.similarity

\* (a, b) => b.eig - a.eig
byEig(a, b) == b.eig - a.eig

compare(order, a, b) ==
    CASE order = "similarity" -> bySimilarity(a, b)
      [] order = "likeScore" -> byLikeScoreThenSimilarity(a, b)
      [] order = "eig" -> byEig(a, b)

\* a sort that is not stable: an element is put before the first element
\* that compare does not place before it
RECURSIVE insertSorted_beforeEqual(_, _, _)
insertSorted_beforeEqual(sorted, x, order) ==
    IF sorted = << >> THEN << x >>
    ELSE IF compare(order, Head(sorted), x) >= 0 THEN << x >> \o sorted
    ELSE << Head(sorted) >> \o insertSorted_beforeEqual(Tail(sorted), x, order)

\* Array.prototype.sort(compare) is stable: an element is put before the
\* first element that compare places after it, so elements that compare
\* equal keep their order
RECURSIVE insertSorted(_, _, _)
insertSorted(sorted, x, order) ==
    IF sorted = << >> THEN << x >>
    ELSE IF compare(order, Head(sorted), x) > 0 THEN << x >> \o sorted
    ELSE << Head(sorted) >> \o insertSorted(Tail(sorted), x, order)

RECURSIVE sortInto(_, _, _)
sortInto(sorted, rest, order) ==
    IF rest = << >> THEN sorted
    ELSE sortInto(insertSorted(sorted, Head(rest), order), Tail(rest), order)

sort(s, order) == sortInto(<< >>, s, order)

\* step 1 of performSearch: every document with its similarity, sorted by
\* similarity, the first 8
recall(sims) ==
    slice(sort([i \in DOMAIN mockDocuments |->
                   [id |-> mockDocuments[i].id,
                    content |-> mockDocuments[i].content,
                    source |-> mockDocuments[i].source,
                    tags |-> mockDocuments[i].tags,
                    similarity |-> sims[i]]],
               "similarity"),
          RetrievalTopK)

\* doc.tags.some(docTag => docTag.toLowerCase().includes(tag.toLowerCase()))
hasTag(doc, tag) ==
    \E j \in DOMAIN doc.tags :
        includes(toLowerCase(doc.tags[j]), toLowerCase(tag))

\* a predicate of filter that leaves the mustNotTags out
passesFilter_mustOnly(doc, mustTags, mustNotTags) ==
    \A i \in DOMAIN mustTags : hasTag(doc, mustTags[i])

\* step 2 of performSearch: the predicate of filter
passesFilter(doc, mustTags, mustNotTags) ==
    LET hasMustTags == \A i \in DOMAIN mustTags : hasTag(doc, mustTags[i])
        hasNoMustNotTags ==
            \A i \in DOMAIN mustNotTags : ~hasTag(doc, mustNotTags[i])
    IN  hasMustTags /\ hasNoMustNotTags

\* a likeScore that counts a like tag once however often it is entered
likeScoreOf_distinct(doc, likeTags) ==
    Cardinality({t \in {likeTags[i] : i \in DOMAIN likeTags} : hasTag(doc, t)})

\* step 3 of performSearch: likeTags.forEach(... likeScore += 1)
likeScoreOf(doc, likeTags) ==
    Cardinality({i \in DOMAIN likeTags : hasTag(doc, likeTags[i])})

\* a record whose similarity is raised by the likeScore
withLikeScore_boosted(doc, likeTags) ==
    [id |-> doc.id, content |-> doc.content, source |-> doc.source,
     tags |-> doc.tags,
     similarity |-> doc.similarity + likeScoreOf(doc, likeTags),
     likeScore |-> likeScoreOf(doc, likeTags)]

withLikeScore(doc, likeTags) ==
    [id |-> doc.id, content |-> doc.content, source |-> doc.source,
     tags |-> doc.tags, similarity |-> doc.similarity,
     likeScore |-> likeScoreOf(doc, likeTags)]

\* filteredResults.map(doc => ({ ...doc, likeScore }))
RECURSIVE scoreAll(_, _)
scoreAll(docs, likeTags) ==
    IF docs = << >> THEN << >>
    ELSE << withLikeScore(Head(docs), likeTags) >>
         \o scoreAll(Tail(docs), likeTags)

\* a rank that cuts the filtered candidates before it sorts them
rank_cutBeforeSort(parsed, candidates) ==
    LET filtered ==
            SelectSeq(candidates,
                LAMBDA doc : passesFilter(doc, parsed.mustTags, parsed.mustNotTags))
    IN  sort(slice(scoreAll(filtered, parsed.likeTags), RerankTopK), "likeScore")

\* steps 2 and 3 of performSearch on the recalled candidates
rank(parsed, candidates) ==
    LET filtered ==
            SelectSeq(candidates,
                LAMBDA doc : passesFilter(doc, parsed.mustTags, parsed.mustNotTags))
    IN  slice(sort(scoreAll(filtered, parsed.likeTags), "likeScore"), RerankTopK)

proto_performSearch(parsed, sims) == rank(parsed, recall(sims))

\* a count that makes a new entry for every occurrence of a tag
countTag_append(freq, tag) ==
    Append(freq, [tag |-> tag, frequency |-> 1])

\* a count that stays at 1 when the tag is met again
RECURSIVE countTag_once(_, _)
countTag_once(freq, tag) ==
    IF freq = << >> THEN << [tag |-> tag, frequency |-> 1] >>
    ELSE IF Head(freq).tag = tag THEN freq
    ELSE << Head(freq) >> \o countTag_once(Tail(freq), tag)

\* calculateTagEIG: tagFrequency[tag] = (tagFrequency[tag] || 0) + 1, the
\* keys in the order in which they were first set
RECURSIVE countTag(_, _)
countTag(freq, tag) ==
    IF freq = << >> THEN << [tag |-> tag, frequency |-> 1] >>
    ELSE IF Head(freq).tag = tag
    THEN << [Head(freq) EXCEPT !.frequency = @ + 1] >> \o Tail(freq)
    ELSE << Head(freq) >> \o countTag(Tail(freq), tag)

RECURSIVE countTags(_, _)
countTags(tags, freq) ==
    IF tags = << >> THEN freq
    ELSE countTags(Tail(tags), countTag(freq, Head(tags)))

RECURSIVE tagFrequency(_, _)
tagFrequency(results, freq) ==
    IF results = << >> THEN freq
    ELSE tagFrequency(Tail(results), countTags(Head(results).tags, freq))

abs(n) == IF n < 0 THEN -n ELSE n

\* a score without Math.abs
RECURSIVE withEig_signed(_, _)
withEig_signed(freq, totalResults) ==
    IF freq = << >> THEN << >>
    ELSE << [tag |-> Head(freq).tag,
             frequency |-> Head(freq).frequency,
             eig |-> 2 * Head(freq).frequency - totalResults] >>
         \o withEig_signed(Tail(freq), totalResults)

\* eig is Math.abs(freq - totalResults / 2); it is kept in halves, as
\* |2 * freq - totalResults|, to stay in the integers
RECURSIVE withEig(_, _)
withEig(freq, totalResults) ==
    IF freq = << >> THEN << >>
    ELSE << [tag |-> Head(freq).tag,
             frequency |-> Head(freq).frequency,
             eig |-> abs(2 * Head(freq).frequency - totalResults)] >>
         \o withEig(Tail(freq), totalResults)

\* a calculateTagEIG that recommends the tags of all documents when there
\* are no results
calculateTagEIG_fallback(results) ==
    LET shown == IF Len(results) = 0 THEN mockDocuments ELSE results
    IN  slice(sort(withEig(tagFrequency(shown, << >>), Len(shown)), "eig"),
              TagsTopK)

calculateTagEIG(results) ==
    LET totalResults == Len(results)
        tagsWithEIG ==
            sort(withEig(tagFrequency(results, << >>), totalResults), "eig")
    IN  IF totalResults = 0 THEN << >> ELSE slice(tagsWithEIG, TagsTopK)

\* the pieces typed into the search box of the prototype: web, +javascript,
\* -react and ~ with the two characters of the tag "front end"
ProtoTokens ==
    { << "w", "e", "b" >>,
      << "+", "j", "a", "v", "a", "s", "c", "r", "i", "p", "t" >>,
      << "-", "r", "e", "a", "c", "t" >>,
      << "~", "u524d", "u7aef" >> }

\* the texts of at most MaxProtoTokens different pieces
ProtoInputs ==
    UNION {{join(ts) : ts \in {f \in [1..n -> ProtoTokens] :
                                   \A i, j \in 1..n : f[i] = f[j] => i = j}}
           : n \in 0..MaxProtoTokens}

\* One search of the prototype: a text in the search box, the similarities
\* that this search draws, and the effect not yet run.
InitRank ==
    /\ searchInput = EmptyString
    /\ parsedQuery = EmptyQuery
    /\ searchResults = << >>
    /\ recommendedTags = << >>
    /\ isLoading = FALSE
    /\ error = NoError
    /\ authToken = "admin_secret_token"
    /\ effectPending = TRUE
    /\ debounceSearch = NoTimer
    /\ inflight = {}
    /\ issued = 0
    /\ shownFor = 0
    /\ lastCall = NoCall
    /\ toggleRun = NoRun
    /\ lastSearch = NoSearch
    /\ ingesting = {}
    /\ successMessage = NoMessage
    /\ messageTimers = << >>
    /\ protoInput \in ProtoInputs
    /\ protoParsed = EmptyQuery
    /\ protoResults = << >>
    /\ availableTags = << >>
    /\ protoPending = TRUE
    /\ protoCandidates = << >>
    /\ protoSims \in simsFor(proto_parseSearchInput(protoInput).query)
    /\ protoRun = NoRun

\* useEffect(..., [searchInput]) of the prototype: parse, search, recommend
proto_useEffect ==
    /\ protoPending
    /\ protoPending' = FALSE
    /\ protoParsed' = proto_parseSearchInput(protoInput)
    /\ protoCandidates' = recall(protoSims)
    /\ protoResults' = proto_performSearch(protoParsed', protoSims)
    /\ availableTags' = calculateTagEIG(protoResults')
    /\ UNCHANGED << naviVars, protoInput, protoSims, protoRun >>

NextRank == proto_useEffect

SpecRank == InitRank /\ [][NextRank]_vars

\* existingTag.replace(/^[+\-~]/, '')
cleanTag(existingTag) ==
    IF existingTag # << >> /\ Head(existingTag) \in PrefixChars
    THEN Tail(existingTag)
    ELSE existingTag

\* the for loop of getTagState of the prototype over existingTags
RECURSIVE proto_stateIn(_, _)
proto_stateIn(existingTags, tag) ==
    IF existingTags = << >> THEN "none"
    ELSE IF cleanTag(Head(existingTags)) = tag
         THEN IF startsWith(Head(existingTags), "+") THEN "must"
              ELSE IF startsWith(Head(existingTags), "-") THEN "mustNot"
              ELSE "like"
         ELSE proto_stateIn(Tail(existingTags), tag)

\* getTagState of the prototype: it reads the text input, not the parsed sets
proto_getTagState(input, tag) ==
    proto_stateIn(Tail(split(trim(input))), tag)

\* toggleTag of the prototype up to setSearchInput: the new text input
proto_toggleInput(input, tag) ==
    LET currentState == proto_getTagState(input, tag)
        parts == split(trim(input))
        query == parts[1]
        filteredTags == SelectSeq(Tail(parts), LAMBDA e : cleanTag(e) # tag)
        kept == IF Len(filteredTags) > 0
                THEN query \o << " " >> \o join(filteredTags)
                ELSE query
        newInput == CASE currentState = "none" -> kept \o << " ", "~" >> \o tag
                      [] currentState = "like" -> kept \o << " ", "+" >> \o tag
                      [] currentState = "must" -> kept \o << " ", "-" >> \o tag
                      [] OTHER -> kept
    IN  trim(newInput)

\* the tags of the result list, each one a button: doc.tags.map(...)
shownTags ==
    UNION {{protoResults[i].tags[j] : j \in DOMAIN protoResults[i].tags}
           : i \in DOMAIN protoResults}

\* the tags that are clicked in the result list
ToggleTags ==
    { << "R", "e", "a", "c", "t" >>, << "u524d", "u7aef" >> }

\* the texts typed into the search box of the prototype
ProtoTexts == { EmptyString, << "w", "e", "b" >> }

\* the similarities drawn under SpecToggle: the first document at one level
\* and the others at one level
simsOfClick(query) ==
    IF query = << >>
    THEN simsFor(query)
    ELSE {[i \in DOMAIN mockDocuments |-> IF i = 1 THEN a ELSE b]
          : a \in SimLevels, b \in SimLevels}

\* setSearchInput of the prototype: the effect runs after the render and
\* draws the similarities of its search
proto_setSearchInput(value) ==
    /\ protoInput' = value
    /\ protoPending' = TRUE
    /\ protoSims' \in simsOfClick(proto_parseSearchInput(value).query)
    /\ UNCHANGED << naviVars, protoParsed, protoResults, availableTags,
                    protoCandidates >>

\* onChange={(e) => setSearchInput(e.target.value)} of the prototype
proto_onChange(value) ==
    /\ ~protoPending
    /\ proto_setSearchInput(value)
    /\ protoRun' = NoRun

\* onClick={() => toggleTag(tag)} on a tag of a result
toggleTag(tag) ==
    /\ ~protoPending
    /\ tag \in shownTags
    /\ proto_setSearchInput(proto_toggleInput(protoInput, tag))
    /\ protoRun' =
          IF protoRun.n \in 1..3 /\ protoRun.tag = tag
          THEN [protoRun EXCEPT !.n = @ + 1,
                                !.inputs = Append(@, protoInput')]
          ELSE [n |-> 1, tag |-> tag, from |-> protoInput,
                inputs |-> << protoInput' >>]

\* The prototype from its empty search box: typing, clicks on the tags of the
\* results, and the effect after each.
NextToggle ==
    \/ proto_useEffect
    \/ \E value \in ProtoTexts : proto_onChange(value)
    \/ \E tag \in ToggleTags : toggleTag(tag)

SpecToggle == Init /\ [][NextToggle]_vars

\* the pieces typed into the search box of the prototype when the query tag
\* is longer than the tag of the document, or is there twice: web, with
\* each prefix reactjs, which contains the tag React, and ~web, which
\* after web gives the like tag web a second time
MatchTokens ==
    { << "w", "e", "b" >>,
      << "+", "r", "e", "a", "c", "t", "j", "s" >>,
      << "-", "R", "e", "a", "c", "t", "J", "S" >>,
      << "~", "r", "e", "a", "c", "t", "j", "s" >>,
      << "~", "w", "e", "b" >> }

MatchInputs ==
    UNION {{join(ts) : ts \in {f \in [1..n -> MatchTokens] :
                                   \A i, j \in 1..n : f[i] = f[j] => i = j}}
           : n \in 0..MaxProtoTokens}

\* One search of the prototype with a text of these pieces.
InitMatch ==
    /\ searchInput = EmptyString
    /\ parsedQuery = EmptyQuery
    /\ searchResults = << >>
    /\ recommendedTags = << >>
    /\ isLoading = FALSE
    /\ error = NoError
    /\ authToken = "admin_secret_token"
    /\ effectPending = TRUE
    /\ debounceSearch = NoTimer
    /\ inflight = {}
    /\ issued = 0
    /\ shownFor = 0
    /\ lastCall = NoCall
    /\ toggleRun = NoRun
    /\ lastSearch = NoSearch
    /\ ingesting = {}
    /\ successMessage = NoMessage
    /\ messageTimers = << >>
    /\ protoInput \in MatchInputs
    /\ protoParsed = EmptyQuery
    /\ protoResults = << >>
    /\ availableTags = << >>
    /\ protoPending = TRUE
    /\ protoCandidates = << >>
    /\ protoSims \in simsFor(proto_parseSearchInput(protoInput).query)
    /\ protoRun = NoRun

SpecMatch == InitMatch /\ [][NextRank]_vars

(***************************************************************************)
(* The claims.                                                             *)
(***************************************************************************)
\* the lower-cased tags of one set
lowerTags(tags) == {toLowerCase(tags[i]) : i \in DOMAIN tags}

\* how many entries of tags are t in lower case
countLower(tags, t) ==
    Cardinality({i \in DOMAIN tags : toLowerCase(tags[i]) = toLowerCase(t)})

\* how many entries of tags are t, casing included
countExact(tags, t) == Cardinality({i \in DOMAIN tags : tags[i] = t})

AtMostOneSet(q) ==
    /\ lowerTags(q.likeTags) \cap lowerTags(q.mustTags) = {}
    /\ lowerTags(q.likeTags) \cap lowerTags(q.mustNotTags) = {}
    /\ lowerTags(q.mustTags) \cap lowerTags(q.mustNotTags) = {}

tagsOf(q, type) ==
    CASE type = "like" -> q.likeTags
      [] type = "must" -> q.mustTags
      [] type = "mustNot" -> q.mustNotTags

\* C1: from the empty search box, after any sequence of toggleTagInSearch,
\* addTagFromRecommendation and removeTagFromPill, each re-serialised into
\* the text and re-parsed, no lower-cased tag is in more than one of
\* likeTags, mustTags and mustNotTags.
C1_AtMostOneSet == ~effectPending => AtMostOneSet(parsedQuery)

\* the state the claim gives a tag: must, then mustNot, then like, else none
claimedState(q, t) ==
    IF toLowerCase(t) \in lowerTags(q.mustTags) THEN "must"
    ELSE IF toLowerCase(t) \in lowerTags(q.mustNotTags) THEN "mustNot"
    ELSE IF toLowerCase(t) \in lowerTags(q.likeTags) THEN "like"
    ELSE "none"

claimedNext(state) ==
    CASE state = "none" -> "like"
      [] state = "like" -> "must"
      [] state = "must" -> "mustNot"
      [] state = "mustNot" -> "none"

\* t is once, with this casing, in the set of type and in no other set; for
\* type none it is in no set
onlyIn(q, t, type) ==
    \A ty \in TagTypes :
        IF ty = type
        THEN countLower(tagsOf(q, ty), t) = 1 /\ countExact(tagsOf(q, ty), t) = 1
        ELSE countLower(tagsOf(q, ty), t) = 0

C3_ToggleCycle ==
    (~effectPending /\ toggleRun.n = 4) =>
        \A ty \in TagTypes : countLower(tagsOf(parsedQuery, ty), toggleRun.tag) = 0

\* the fourth toggle of a tag that was in mustNotTags after the third
C3_Witness ==
    /\ ~effectPending
    /\ toggleRun.n = 4
    /\ lastCall.op = "toggle"
    /\ lastCall.type = "mustNot"
    /\ lastCall.before.query # << >>

\* the two queries have the same free text and, in each set, the same tags
\* up to case and order
sameUpToCaseAndOrder(p, q) ==
    /\ p.query = q.query
    /\ \A ty \in TagTypes :
          /\ Len(tagsOf(p, ty)) = Len(tagsOf(q, ty))
          /\ \A t \in lowerTags(tagsOf(p, ty)) \cup lowerTags(tagsOf(q, ty)) :
                countLower(tagsOf(p, ty), t) = countLower(tagsOf(q, ty), t)

\* C9: parser round trip: for the query q a tag operation serialises, when
\* q has no tag in two sets, parseSearchInput of the text reconstructs q:
\* the same free text and the same tags in each set, up to case and order.
C9_RoundTrip ==
    (~effectPending /\ lastCall.op # "none" /\ AtMostOneSet(lastCall.after)) =>
        sameUpToCaseAndOrder(parsedQuery, lastCall.after)

\* C10: addTagFromRecommendation(tag, type) removes the tag from all three
\* sets and appends it to the set of type: in the sets it hands on, the tag
\* is once in that set and in no other, whatever sets it was in before.
C10_DirectSet ==
    lastCall.op = "add" => onlyIn(lastCall.after, lastCall.tag, lastCall.type)

\* an add of a tag that was in two other sets before
C10_Witness ==
    /\ lastCall.op = "add"
    /\ lastCall.type = "mustNot"
    /\ countLower(lastCall.before.mustTags, lastCall.tag) > 0
    /\ countLower(lastCall.before.likeTags, lastCall.tag) > 0

\* the tokens of a text: its pieces between white space
tokensOf(s) == SelectSeq(split(trim(s)), LAMBDA p : p # << >>)

\* a prefix character followed by at least one more character
isTagToken(tok) == Len(tok) >= 2 /\ tok[1] \in PrefixChars

hasPrefix(tok, c) == Len(tok) >= 2 /\ tok[1] = c

stripped(toks) == [i \in DOMAIN toks |-> SubSeq(toks[i], 2, Len(toks[i]))]

\* the place of the first tag token, Len(toks) + 1 when there is none
firstTagIndex(toks) ==
    IF \E i \in DOMAIN toks : isTagToken(toks[i])
    THEN CHOOSE i \in DOMAIN toks :
            /\ isTagToken(toks[i])
            /\ \A j \in 1..(i - 1) : ~isTagToken(toks[j])
    ELSE Len(toks) + 1

\* the tokens after the first tag token that are no tag tokens
nonTagAfterFirst(toks) ==
    SelectSeq(SubSeq(toks, firstTagIndex(toks) + 1, Len(toks)),
              LAMBDA t : ~isTagToken(t))

\* the like entries, token by token: a ~ token stripped, and a token that is
\* no tag token and comes after the first tag token as it is
RECURSIVE likeFrom(_, _)
likeFrom(toks, i) ==
    IF i > Len(toks) THEN << >>
    ELSE (IF hasPrefix(toks[i], "~") THEN << SubSeq(toks[i], 2, Len(toks[i])) >>
          ELSE IF i > firstTagIndex(toks) /\ ~isTagToken(toks[i])
               THEN << toks[i] >>
               ELSE << >>)
         \o likeFrom(toks, i + 1)

RECURSIVE isSubseq(_, _)
isSubseq(a, b) ==
    IF a = << >> THEN TRUE
    ELSE IF b = << >> THEN FALSE
    ELSE IF Head(a) = Head(b) THEN isSubseq(Tail(a), Tail(b))
    ELSE isSubseq(a, Tail(b))

\* C7: parseSearchInput turns every token that is +, - or ~ followed by at
\* least one character into exactly one entry, the prefix stripped, of
\* mustTags, mustNotTags or likeTags; the entries keep the order of the text
\* and a token that occurs twice gives two entries.
C7_TagTokens ==
    ~effectPending =>
        LET toks == tokensOf(searchInput)
        IN  /\ parsedQuery.mustTags =
                  stripped(SelectSeq(toks, LAMBDA t : hasPrefix(t, "+")))
            /\ parsedQuery.mustNotTags =
                  stripped(SelectSeq(toks, LAMBDA t : hasPrefix(t, "-")))
            /\ parsedQuery.likeTags = likeFrom(toks, 1)

\* a text with the same + token twice and a - token
C7_Witness ==
    /\ ~effectPending
    /\ Len(parsedQuery.mustTags) = 2
    /\ parsedQuery.mustTags[1] = parsedQuery.mustTags[2]
    /\ searchInput = << "+", "a", " ", "+", "a" >>

\* C8: free text cannot resume after the first tag token: the free text is
\* the tokens before the first tag token, joined by one space in their
\* order, and every token after it that is no tag token is a like entry.
C8_FreeTextPrefix ==
    ~effectPending =>
        LET toks == tokensOf(searchInput)
            tildes == SelectSeq(toks, LAMBDA t : hasPrefix(t, "~"))
        IN  /\ parsedQuery.query = join(SubSeq(toks, 1, firstTagIndex(toks) - 1))
            /\ isSubseq(nonTagAfterFirst(toks), parsedQuery.likeTags)
            /\ Len(parsedQuery.likeTags) =
                  Len(tildes) + Len(nonTagAfterFirst(toks))

\* free text, then a tag token, then a token without prefix
C8_Witness ==
    /\ ~effectPending
    /\ searchInput = << "a", " ", "+", "a", " ", "b" >>
    /\ parsedQuery.query = << "a" >>
    /\ parsedQuery.likeTags = << << "b" >> >>

\* C4: last request wins: once every request has completed, searchResults
\* and recommendedTags are those written for the call of performSearch that
\* was made last, whatever the order in which the responses arrived.
C4_LastRequestWins ==
    (inflight = {} /\ issued > 0) => shownFor = issued

\* the ids of the documents of a list
idsOf(docs) == {docs[i].id : i \in DOMAIN docs}

\* a document carries every tag of mustTags and no tag of mustNotTags
satisfiesBoth(doc, parsed) ==
    /\ \A i \in DOMAIN parsed.mustTags : hasTag(doc, parsed.mustTags[i])
    /\ \A i \in DOMAIN parsed.mustNotTags : ~hasTag(doc, parsed.mustNotTags[i])

\* C5: every result of the prototype's performSearch carries every tag of
\* mustTags and no tag of mustNotTags (a document tag, lower-cased, contains
\* the lower-cased query tag), whatever its similarity; a recalled candidate
\* that satisfies both conditions is absent from the results only when the
\* results were cut to their first RerankTopK entries.
C5_FilterCorrect ==
    ~protoPending =>
        /\ \A i \in DOMAIN protoResults :
               /\ satisfiesBoth(protoResults[i], protoParsed)
               /\ protoResults[i].id \in idsOf(protoCandidates)
        /\ \A i \in DOMAIN protoCandidates :
               (/\ satisfiesBoth(protoCandidates[i], protoParsed)
                /\ protoCandidates[i].id \notin idsOf(protoResults))
               => Len(protoResults) = RerankTopK

\* a search with a mustNot tag in which a candidate whose similarity is above
\* that of every result was filtered out, and a candidate that satisfies both
\* conditions was cut off
C5_Witness ==
    /\ ~protoPending
    /\ protoParsed.mustNotTags # << >>
    /\ protoResults # << >>
    /\ \E i \in DOMAIN protoCandidates :
           /\ ~satisfiesBoth(protoCandidates[i], protoParsed)
           /\ \A j \in DOMAIN protoResults :
                  protoCandidates[i].similarity > protoResults[j].similarity
    /\ \E i \in DOMAIN protoCandidates :
           /\ satisfiesBoth(protoCandidates[i], protoParsed)
           /\ protoCandidates[i].id \notin idsOf(protoResults)

\* C6: the results of the prototype's performSearch are sorted descending by
\* the pair (likeScore, similarity): of two results the earlier one has the
\* higher likeScore, or the same likeScore and a similarity at least as high;
\* the likeScore of a result is the number of likeTags it carries.
C6_SortedByLikeScoreThenSimilarity ==
    ~protoPending =>
        /\ \A i \in DOMAIN protoResults :
               protoResults[i].likeScore =
                   Cardinality({k \in DOMAIN protoParsed.likeTags :
                                   hasTag(protoResults[i], protoParsed.likeTags[k])})
        /\ \A i, j \in DOMAIN protoResults :
               i < j =>
                   \/ protoResults[i].likeScore > protoResults[j].likeScore
                   \/ /\ protoResults[i].likeScore = protoResults[j].likeScore
                      /\ protoResults[i].similarity >= protoResults[j].similarity

\* a result of higher likeScore stands before one of higher similarity
C6_Witness ==
    /\ ~protoPending
    /\ \E i, j \in DOMAIN protoResults :
           /\ i < j
           /\ protoResults[i].likeScore > protoResults[j].likeScore
           /\ protoResults[i].similarity < protoResults[j].similarity

\* C11: removeTagFromPill(tag, type) takes out of the set of type every
\* entry that equals the tag up to case, and hands on the free text and the
\* other two sets as parsed; when the tag is not in the set of type the
\* query handed on is the query parsed, and the text written parses to it;
\* a second identical remove gives the query of the first.
C11_Remove ==
    lastCall.op = "remove" =>
        LET before == lastCall.before
            after == lastCall.after
            absent == countLower(tagsOf(before, lastCall.type),
                                 toLowerCase(lastCall.tag)) = 0
            again == removeSets(searchInput, lastCall.tag, lastCall.type)
        IN  /\ after.query = before.query
            /\ \A ty \in TagTypes \ {lastCall.type} :
                   tagsOf(after, ty) = tagsOf(before, ty)
            /\ tagsOf(after, lastCall.type) =
                   SelectSeq(tagsOf(before, lastCall.type),
                       LAMBDA t : toLowerCase(t) # toLowerCase(lastCall.tag))
            /\ absent => after = before
            /\ (absent /\ ~effectPending) => parsedQuery = before
            /\ again = parseSearchInput(searchInput)
            /\ parseSearchInput(serialize(again)) = parseSearchInput(searchInput)

\* the X of a pill clicked a second time: the tag is no longer in the set,
\* while another set still holds it
C11_Witness ==
    /\ lastCall.op = "remove"
    /\ ~effectPending
    /\ countLower(tagsOf(lastCall.before, lastCall.type),
                  toLowerCase(lastCall.tag)) = 0
    /\ \E ty \in TagTypes \ {lastCall.type} :
           countLower(tagsOf(lastCall.after, ty), toLowerCase(lastCall.tag)) > 0

\* no free text and no tag in any set
fullyEmpty(parsed) ==
    /\ parsed.query = EmptyString
    /\ parsed.likeTags = << >>
    /\ parsed.mustTags = << >>
    /\ parsed.mustNotTags = << >>

\* C12: when performSearch of NaviSearch is called with a query that has no
\* free text and no tag in any set, searchResults and recommendedTags are
\* empty afterwards and no request was added to the requests in flight.
C12_EmptyQueryNoRequest ==
    (lastSearch.op = "performSearch" /\ fullyEmpty(lastSearch.parsed)) =>
        /\ searchResults = << >>
        /\ recommendedTags = << >>
        /\ inflight = lastSearch.inflight
        /\ \A req \in inflight : req.id # lastSearch.id

\* the search box was cleared while results were shown, with a token set
C12_Witness ==
    /\ lastSearch.op = "performSearch"
    /\ fullyEmpty(lastSearch.parsed)
    /\ lastSearch.token # ""
    /\ lastSearch.results # << >>
    /\ lastSearch.tags # << >>

\* C13: when the query of the prototype has no free text and no tag in any
\* set, its performSearch returns no result, so that the empty search box
\* shows no result and no recommended tag.
C13_EmptyQueryNoResults ==
    (~protoPending /\ fullyEmpty(protoParsed)) =>
        /\ protoResults = << >>
        /\ availableTags = << >>

\* C14: when a search request fails (a network error or a status that is not
\* OK), searchResults and recommendedTags are what they were before: a
\* failure does not clear a list that was shown.
C14_FailureKeepsResults ==
    (lastSearch.op = "response" /\ lastSearch.kind = "failed") =>
        /\ searchResults = lastSearch.results
        /\ recommendedTags = lastSearch.tags

\* the match in both directions: one of the two tags, in lower case,
\* contains the other
matchesBothWays(q, d) ==
    \/ includes(toLowerCase(d), toLowerCase(q))
    \/ includes(toLowerCase(q), toLowerCase(d))

carriesBothWays(doc, tag) ==
    \E j \in DOMAIN doc.tags : matchesBothWays(tag, doc.tags[j])

\* C15: the prototype's performSearch matches a query tag and a document tag
\* when one of them, in lower case, contains the other, and uses this rule
\* for must, mustNot and like tags: the results carry every must tag and no
\* mustNot tag under it, a candidate that does is left out only by the cut
\* to RerankTopK, and likeScore counts the like tags carried under it.
C15_MatchBothWays ==
    ~protoPending =>
        /\ \A i \in DOMAIN protoResults :
               /\ \A k \in DOMAIN protoParsed.mustTags :
                      carriesBothWays(protoResults[i], protoParsed.mustTags[k])
               /\ \A k \in DOMAIN protoParsed.mustNotTags :
                      ~carriesBothWays(protoResults[i], protoParsed.mustNotTags[k])
               /\ protoResults[i].likeScore =
                      Cardinality({k \in DOMAIN protoParsed.likeTags :
                          carriesBothWays(protoResults[i], protoParsed.likeTags[k])})
        /\ \A i \in DOMAIN protoCandidates :
               (/\ \A k \in DOMAIN protoParsed.mustTags :
                       carriesBothWays(protoCandidates[i], protoParsed.mustTags[k])
                /\ \A k \in DOMAIN protoParsed.mustNotTags :
                       ~carriesBothWays(protoCandidates[i], protoParsed.mustNotTags[k])
                /\ protoCandidates[i].id \notin idsOf(protoResults))
               => Len(protoResults) = RerankTopK

\* how many entries of likeTags the document carries, entry by entry
RECURSIVE matchedEntries(_, _)
matchedEntries(doc, likeTags) ==
    IF likeTags = << >> THEN 0
    ELSE (IF hasTag(doc, Head(likeTags)) THEN 1 ELSE 0)
         + matchedEntries(doc, Tail(likeTags))

\* C16: the likeScore of every result of the prototype's performSearch is
\* the number of entries of likeTags that match one of the tags of the
\* document, an entry that is there twice counted twice; it is at least 0
\* and at most the length of likeTags.
C16_LikeScoreCounts ==
    ~protoPending =>
        \A i \in DOMAIN protoResults :
            /\ protoResults[i].likeScore =
                   matchedEntries(protoResults[i], protoParsed.likeTags)
            /\ protoResults[i].likeScore >= 0
            /\ protoResults[i].likeScore <= Len(protoParsed.likeTags)

\* one like tag entered twice: a result that carries it has likeScore 2, and
\* another result has likeScore 0
C16_Witness ==
    /\ ~protoPending
    /\ Len(protoParsed.likeTags) = 2
    /\ protoParsed.likeTags[1] = protoParsed.likeTags[2]
    /\ \E i, j \in DOMAIN protoResults :
           /\ protoResults[i].likeScore = 2
           /\ protoResults[j].likeScore = 0

\* candidate c, with the likeScore it has for the likeTags, ranks strictly
\* above the result r
ranksAbove(c, r, likeTags) ==
    \/ matchedEntries(c, likeTags) > r.likeScore
    \/ /\ matchedEntries(c, likeTags) = r.likeScore
       /\ c.similarity > r.similarity

\* C17: the prototype's performSearch returns at most RerankTopK results,
\* the first ones of the filtered candidates in sorted order: when fewer
\* than RerankTopK are returned no filtered candidate is left out, and a
\* filtered candidate that is left out does not rank strictly above any
\* result.
C17_TopKOfSorted ==
    ~protoPending =>
        /\ Len(protoResults) <= RerankTopK
        /\ \A i \in DOMAIN protoCandidates :
               (/\ satisfiesBoth(protoCandidates[i], protoParsed)
                /\ protoCandidates[i].id \notin idsOf(protoResults))
               => /\ Len(protoResults) = RerankTopK
                  /\ \A j \in DOMAIN protoResults :
                         ~ranksAbove(protoCandidates[i], protoResults[j],
                                     protoParsed.likeTags)

\* five results, and a filtered candidate left out whose similarity is above
\* that of a result with a higher likeScore
C17_Witness ==
    /\ ~protoPending
    /\ Len(protoResults) = RerankTopK
    /\ \E i \in DOMAIN protoCandidates, j \in DOMAIN protoResults :
           /\ satisfiesBoth(protoCandidates[i], protoParsed)
           /\ protoCandidates[i].id \notin idsOf(protoResults)
           /\ protoCandidates[i].similarity > protoResults[j].similarity
           /\ matchedEntries(protoCandidates[i], protoParsed.likeTags)
                  < protoResults[j].likeScore

\* the results whose tags hold the tag
resultsWith(tag) ==
    {i \in DOMAIN protoResults :
        \E j \in DOMAIN protoResults[i].tags : protoResults[i].tags[j] = tag}

\* C18: in the recommendations of calculateTagEIG the frequency of a tag is
\* the number of displayed results whose tags hold it, so it is at least 1
\* and at most the number of results.
C18_FrequencyCountsResults ==
    ~protoPending =>
        \A k \in DOMAIN availableTags :
            /\ availableTags[k].frequency =
                   Cardinality(resultsWith(availableTags[k].tag))
            /\ availableTags[k].frequency >= 1
            /\ availableTags[k].frequency <= Len(protoResults)

\* fewer results than candidates, a tag that three of them hold and a tag
\* that one of them holds
C18_Witness ==
    /\ ~protoPending
    /\ Len(protoResults) >= 3
    /\ Len(protoResults) < Len(protoCandidates)
    /\ \E k, l \in DOMAIN availableTags :
           /\ availableTags[k].frequency = 3
           /\ availableTags[l].frequency = 1

\* the tags of the displayed results
resultTags ==
    UNION {{protoResults[i].tags[j] : j \in DOMAIN protoResults[i].tags}
           : i \in DOMAIN protoResults}

\* |frequency - totalResults / 2| of a tag, in halves
scoreInHalves(tag) ==
    LET d == 2 * Cardinality(resultsWith(tag)) - Len(protoResults)
    IN  IF d < 0 THEN -d ELSE d

\* C19: calculateTagEIG gives each tag the score |frequency - totalResults/2|
\* (eig holds it in halves), which is never negative; the entries are in
\* descending order of the score, there are at most TagsTopK of them, each
\* tag once, and no tag of the results that is left out has a score
\* strictly above that of an entry.
C19_EigSortedTopN ==
    ~protoPending =>
        /\ Len(availableTags) <= TagsTopK
        /\ \A k \in DOMAIN availableTags :
               /\ availableTags[k].tag \in resultTags
               /\ availableTags[k].eig = scoreInHalves(availableTags[k].tag)
               /\ availableTags[k].eig >= 0
        /\ \A k, l \in DOMAIN availableTags :
               k < l => /\ availableTags[k].eig >= availableTags[l].eig
                        /\ availableTags[k].tag # availableTags[l].tag
        /\ \A t \in resultTags :
               (\A k \in DOMAIN availableTags : availableTags[k].tag # t)
               => /\ Len(availableTags) = TagsTopK
                  /\ \A k \in DOMAIN availableTags :
                         scoreInHalves(t) <= availableTags[k].eig

\* more tags than TagsTopK, so that some are left out, and entries of
\* different scores, one of them for a tag that fewer than half of the
\* results hold
C19_Witness ==
    /\ ~protoPending
    /\ Len(availableTags) = TagsTopK
    /\ Cardinality(resultTags) > TagsTopK
    /\ availableTags[1].eig > availableTags[TagsTopK].eig
    /\ \E k \in DOMAIN availableTags :
           2 * availableTags[k].frequency < Len(protoResults)

\* C20: for every text, the query that parseSearchInput returns has no tag,
\* in lower case, in more than one of likeTags, mustTags and mustNotTags.
C20_ParserAtMostOneSet ==
    AtMostOneSet(parseSearchInput(searchInput))

\* C21: performSearch is only called with the query parsed from the text
\* that is in the search box at the call, after a timer that was pending:
\* never with the query of a text that has been replaced.
C21_Debounce ==
    [][issued' # issued => lastSearch'.parsed = parseSearchInput(searchInput)]_vars

\* a tag is a string of at least one character, none of them white space
wellFormedTag(t) ==
    /\ Len(t) >= 1
    /\ \A i \in DOMAIN t : t[i] \notin WhiteSpace

\* a token that is one prefix character and nothing else
isPrefixOnly(tok) == Len(tok) = 1 /\ tok[1] \in PrefixChars

\* C22: for every text parseSearchInput returns a query: its free text is a
\* string, every tag of its three sets is a non-empty string without white
\* space, and for the empty text or a text of white space the free text and
\* the three sets are empty.
C22_ParserTotal ==
    LET q == parseSearchInput(searchInput)
    IN  /\ DOMAIN q = {"query", "likeTags", "mustTags", "mustNotTags"}
        /\ q.query \in Seq(Alphabet)
        /\ \A ty \in TagTypes :
               \A i \in DOMAIN tagsOf(q, ty) : wellFormedTag(tagsOf(q, ty)[i])
        /\ (\A i \in DOMAIN searchInput : searchInput[i] \in WhiteSpace)
               => q = EmptyQuery
        /\ ~effectPending => parsedQuery = q

\* a text with a prefix alone before the first tag token and another after
\* it, parsed
C22_Witness ==
    /\ ~effectPending
    /\ \E i, j \in DOMAIN tokensOf(searchInput) :
           /\ i < firstTagIndex(tokensOf(searchInput))
           /\ firstTagIndex(tokensOf(searchInput)) < j
           /\ isPrefixOnly(tokensOf(searchInput)[i])
           /\ isPrefixOnly(tokensOf(searchInput)[j])

\* the entries of a list that are one prefix character
prefixOnly(s) == SelectSeq(s, LAMBDA t : isPrefixOnly(t))

\* the entries that the tag tokens with prefix c give
fromTagTokens(toks, c) ==
    stripped(SelectSeq(toks, LAMBDA t : hasPrefix(t, c)))

\* C23: a token that is one prefix character is a word of the free text
\* when it comes before the first tag token and an entry of likeTags, as it
\* is, when it comes after it; none is dropped, and none is put in mustTags
\* or mustNotTags.
C23_PrefixOnlyTokens ==
    LET toks == tokensOf(searchInput)
        first == firstTagIndex(toks)
        q == parseSearchInput(searchInput)
    IN  /\ prefixOnly(tokensOf(q.query)) = prefixOnly(SubSeq(toks, 1, first - 1))
        /\ prefixOnly(q.likeTags) =
               prefixOnly(likeFrom(toks, 1))
        /\ Len(prefixOnly(q.likeTags)) =
               Len(prefixOnly(SubSeq(toks, first + 1, Len(toks))))
               + Len(prefixOnly(fromTagTokens(toks, "~")))
        /\ prefixOnly(q.mustTags) = prefixOnly(fromTagTokens(toks, "+"))
        /\ prefixOnly(q.mustNotTags) = prefixOnly(fromTagTokens(toks, "-"))

\* the text "+ +a -": a + alone in the free text and a - alone in likeTags
C23_Witness ==
    /\ ~effectPending
    /\ searchInput = << "+", " ", "+", "a", " ", "-" >>
    /\ parsedQuery.query = << "+" >>
    /\ parsedQuery.likeTags = << << "-" >> >>
    /\ parsedQuery.mustTags = << << "a" >> >>
    /\ parsedQuery.mustNotTags = << >>

\* the document of mockDocuments with this id
documentWithId(id) == CHOOSE d \in {mockDocuments[i] : i \in DOMAIN mockDocuments} : d.id = id

\* C24: performSearch of the prototype does not change its candidates: every
\* result is one of the candidates, with the same id, content, source, tags
\* and similarity, and with the field likeScore added; after the search the
\* candidates are still the documents of mockDocuments with the similarity
\* drawn for them, without a likeScore, and no candidate is returned twice.
C24_CandidatesNotMutated ==
    ~protoPending =>
        /\ \A i \in DOMAIN protoResults :
               /\ DOMAIN protoResults[i] =
                      {"id", "content", "source", "tags", "similarity", "likeScore"}
               /\ \E k \in DOMAIN protoCandidates :
                      protoCandidates[k] =
                          [id |-> protoResults[i].id,
                           content |-> protoResults[i].content,
                           source |-> protoResults[i].source,
                           tags |-> protoResults[i].tags,
                           similarity |-> protoResults[i].similarity]
        /\ \A i, j \in DOMAIN protoResults :
               protoResults[i].id = protoResults[j].id => i = j
        /\ \A k \in DOMAIN protoCandidates :
               LET c == protoCandidates[k]
                   d == documentWithId(c.id)
               IN  c = [id |-> d.id, content |-> d.content, source |-> d.source,
                        tags |-> d.tags, similarity |-> protoSims[c.id]]

\* results that carry a like tag, among them one of the higher similarity,
\* while a candidate was filtered out
C24_Witness ==
    /\ ~protoPending
    /\ Len(protoResults) < Len(protoCandidates)
    /\ \E i, j \in DOMAIN protoResults :
           /\ protoResults[i].likeScore > 0
           /\ protoResults[i].similarity = 2
           /\ protoResults[j].likeScore > 0
           /\ protoResults[j].similarity = 1

\* C26: calculateTagEIG returns a list for every result list of the
\* prototype's search, each entry with a tag, a frequency and an eig; for
\* the empty result list it returns the empty list.
C26_EigTotal ==
    ~protoPending =>
        /\ DOMAIN availableTags = 1..Len(availableTags)
        /\ \A k \in DOMAIN availableTags :
               /\ DOMAIN availableTags[k] = {"tag", "frequency", "eig"}
               /\ availableTags[k].frequency \in Nat
               /\ availableTags[k].eig \in Nat
        /\ protoResults = << >> => availableTags = << >>
        /\ protoResults # << >> => availableTags # << >>

\* a search with a must tag that no candidate carries: no result
C26_Witness ==
    /\ ~protoPending
    /\ protoParsed.mustTags # << >>
    /\ protoCandidates # << >>
    /\ protoResults = << >>
    /\ availableTags = << >>

\* C27: toggleTagInSearch has no hidden state: the state of the tag that it
\* uses to choose the transition is the state of the tag in the sets parsed
\* from the text input it runs on, the sets it then changes.
C27_NoHiddenState ==
    lastCall.op = "toggle" =>
        lastCall.type = claimedState(lastCall.before, lastCall.tag)

\* the tag is, with this spelling, in the set of type and in no other set of
\* the parsed query; for type none it is in no set
protoOnlyIn(q, t, type) ==
    \A ty \in TagTypes : (countExact(tagsOf(q, ty), t) > 0) <=> (ty = type)

protoCycle == << "like", "must", "mustNot", "none" >>

\* C28: in the prototype, from any text input in which tag t is in none of
\* the three parsed sets (the empty text and a text with empty free text
\* included), consecutive toggleTag(t) calls put t in likeTags, then in
\* mustTags, then in mustNotTags, and the fourth leaves a text in which t is
\* in none of the parsed sets.
C28_ProtoToggleCycle ==
    (/\ protoRun.n >= 1
     /\ protoOnlyIn(proto_parseSearchInput(protoRun.from), protoRun.tag, "none"))
    => \A k \in 1..protoRun.n :
          protoOnlyIn(proto_parseSearchInput(protoRun.inputs[k]),
                      protoRun.tag, protoCycle[k])

\* C29: a request that fails sets error to a message, and a message in error
\* is cleared only by the start of a request (setError(null) in
\* makeApiRequest), which adds a request in flight.
C29_ErrorShown ==
    [][/\ (/\ lastSearch' # lastSearch
            /\ lastSearch'.op = "response"
            /\ lastSearch'.kind = "failed") => error' # NoError
       /\ (error # NoError /\ error' = NoError) =>
              \E req \in inflight' : req \notin inflight]_vars

\* a request has failed while another one is still in flight, and the
\* message is shown
C29_Witness ==
    /\ lastSearch.op = "response"
    /\ lastSearch.kind = "failed"
    /\ error = "request failed"
    /\ inflight # {}

\* the entries of tags that are not t in lower case, in their order
othersThan(tags, t) ==
    SelectSeq(tags, LAMBDA e : toLowerCase(e) # toLowerCase(t))

\* C30: frame of toggleTagInSearch, addTagFromRecommendation and
\* removeTagFromPill on tag t: the free text of the sets handed on and of the
\* text written is the free text before, and in each set the entries that
\* are not t in lower case are the same, in the same order, as before.
C30_Frame ==
    lastCall.op # "none" =>
        /\ lastCall.after.query = lastCall.before.query
        /\ parseSearchInput(searchInput).query = lastCall.before.query
        /\ \A ty \in TagTypes :
              othersThan(tagsOf(lastCall.after, ty), lastCall.tag) =
                  othersThan(tagsOf(lastCall.before, ty), lastCall.tag)

\* a toggle of the first of two like tags, behind a free text
C30_Witness ==
    /\ lastCall.op = "toggle"
    /\ lastCall.type = "like"
    /\ lastCall.before.query # << >>
    /\ Len(lastCall.before.likeTags) >= 2
    /\ toLowerCase(lastCall.before.likeTags[1]) = toLowerCase(lastCall.tag)
    /\ Len(othersThan(lastCall.before.likeTags, lastCall.tag)) >= 1

\* C31: the sets that addTagFromRecommendation(t, type) computes survive the
\* round trip through the text, also for a tag with white space or a leading
\* prefix character: the text written parses to a query in which
\* getTagState(t) is type and the entries that are not t are those handed on.
C31_AddRoundTrip ==
    (~effectPending /\ lastCall.op = "add") =>
        /\ getTagState(parsedQuery, lastCall.tag) = lastCall.type
        /\ \A ty \in TagTypes :
              othersThan(tagsOf(parsedQuery, ty), lastCall.tag) =
                  othersThan(tagsOf(lastCall.after, ty), lastCall.tag)

\* C32: whenever a request issued through makeApiRequest is in flight, also
\* when several overlap, isLoading is true; isLoading is false only when no
\* request is in flight.
C32_LoadingWhileInFlight == inflight # {} => isLoading = TRUE

\* C33: after the text and the token have stopped changing on a text that
\* parses to a query that is not empty, a search is issued for it, and once
\* every request has completed the results displayed are those of that
\* search, the one issued last. In its finite form: in a state in which the
\* effect has run, no timer is pending and no request is in flight, a
\* search has been issued and the display is the one written for the search
\* issued last.
C33_SettledShowsFinal ==
    (/\ ~effectPending
     /\ ~debounceSearch.pending
     /\ inflight = {}
     /\ authToken # ""
     /\ ~isEmptyQuery(parseSearchInput(searchInput)))
    => (issued > 0 /\ shownFor = issued)

\* C34: with an empty auth token makeApiRequest issues no request, leaves
\* isLoading as it is and sets error to the missing-token message; the
\* performSearch that called it ends with empty searchResults and
\* recommendedTags.
C34_MissingToken ==
    [][(/\ lastSearch' # lastSearch
        /\ lastSearch'.op = "performSearch"
        /\ lastSearch'.token = ""
        /\ ~fullyEmpty(lastSearch'.parsed))
       => /\ inflight' = inflight
          /\ isLoading' = isLoading
          /\ error' = MissingToken
          /\ searchResults' = << >>
          /\ recommendedTags' = << >>]_vars

\* a search without token, made while results were shown and another
\* request was in flight
C34_Witness ==
    /\ lastSearch.op = "performSearch"
    /\ lastSearch.token = ""
    /\ ~fullyEmpty(lastSearch.parsed)
    /\ lastSearch.results # << >>
    /\ lastSearch.inflight # {}
    /\ isLoading = TRUE
    /\ error = MissingToken
    /\ searchResults = << >>

\* C35: every entry of the list of calculateTagEIG names a tag that is on at
\* least one of the results the list was computed from, and no tag is named
\* by two entries.
C35_TagsOfResults ==
    ~protoPending =>
        /\ \A k \in DOMAIN availableTags :
               resultsWith(availableTags[k].tag) # {}
        /\ \A k \in DOMAIN availableTags, l \in DOMAIN availableTags :
               availableTags[k].tag = availableTags[l].tag => k = l

\* a tag that several results carry is one entry of the list, while the
\* results are fewer than the candidates
C35_Witness ==
    /\ ~protoPending
    /\ Len(protoResults) >= 2
    /\ Len(protoResults) < Len(protoCandidates)
    /\ \E k \in DOMAIN availableTags :
           /\ availableTags[k].frequency >= 2
           /\ Cardinality(resultsWith(availableTags[k].tag)) >= 2

\* the candidates that pass the filter of the query
eligible(parsed, cands) ==
    {i \in DOMAIN cands : satisfiesBoth(cands[i], parsed)}

\* candidate i is ranked before candidate j: a higher likeScore, or the same
\* likeScore and a higher similarity, or both the same and delivered first
rankedBefore(parsed, cands, i, j) ==
    LET li == likeScoreOf(cands[i], parsed.likeTags)
        lj == likeScoreOf(cands[j], parsed.likeTags)
    IN  \/ li > lj
        \/ li = lj /\ cands[i].similarity > cands[j].similarity
        \/ li = lj /\ cands[i].similarity = cands[j].similarity /\ i < j

\* the place of a result in the list of candidates
candidateIndex(r) ==
    CHOOSE i \in DOMAIN protoCandidates : protoCandidates[i].id = r.id

\* C36: the ranking is a function of the query and of the scored candidates:
\* the k-th result is the candidate that passes the filter and has exactly
\* k - 1 such candidates ranked before it, where candidates that tie on
\* likeScore and similarity are ranked in the order in which they were
\* delivered.
C36_DeterministicStable ==
    ~protoPending =>
        LET el == eligible(protoParsed, protoCandidates)
        IN  /\ Len(protoResults) =
                   IF Cardinality(el) < RerankTopK
                   THEN Cardinality(el) ELSE RerankTopK
            /\ \A k \in DOMAIN protoResults :
                   \E i \in el :
                       /\ protoResults[k].id = protoCandidates[i].id
                       /\ protoResults[k].similarity =
                              protoCandidates[i].similarity
                       /\ Cardinality({j \in el :
                              rankedBefore(protoParsed, protoCandidates, j, i)})
                          = k - 1

\* two results that tie on likeScore and similarity, behind a result that
\* was delivered after both
C36_Witness ==
    /\ ~protoPending
    /\ \E k, l, m \in DOMAIN protoResults :
           /\ m < k /\ k < l
           /\ protoResults[k].likeScore = protoResults[l].likeScore
           /\ protoResults[k].similarity = protoResults[l].similarity
           /\ candidateIndex(protoResults[k]) < candidateIndex(protoResults[l])
           /\ candidateIndex(protoResults[m]) > candidateIndex(protoResults[l])

\* C37: a message shown through displayMessage stays for its full duration:
\* while the timer of the latest call is pending its message is shown,
\* also when the timer of an earlier call through the same setter fires
\* in between.
C37_MessageStays ==
    messageTimers # << >> =>
        successMessage = messageTimers[Len(messageTimers)]

================================================================
